---- MODULE Spec2Model ----
(***************************************************************************)
(* Model of the scoring engine of the dance-skeleton application:          *)
(* react-application/app/skeleton-viewer/utils.ts (comparePoses2D,          *)
(* comparePosesByAngles2D and the SessionScorer class), of the level       *)
(* creation endpoint of the server (POST /levels/create), and of the       *)
(* components of the React application around them: the level-creation    *)
(* page, the SkeletonViewer, the skeleton transformer and the              *)
(* pose-comparison page.                                                   *)
(*                                                                         *)
(* JavaScript numbers are modelled as fixed-point numbers with Scale units *)
(* per 1.0, plus the two IEEE values the code can produce from a division  *)
(* by zero: NaN (0/0) and Infinity (x/0).  Timestamps are whole            *)
(* milliseconds and stay plain integers.                                   *)
(***************************************************************************)
EXTENDS Integers, Sequences, FiniteSets

VARIABLES
    levelData,               \* SessionScorer.levelData (its pose_data list)
    window_size,             \* SessionScorer.window_size
    intervals,               \* SessionScorer.intervals
    lastScoredTimestamp,     \* SessionScorer.lastScoredTimestamp
    timestamp_scores,        \* SessionScorer.timestamp_scores
    current_window_average,  \* SessionScorer.current_window_average
    op,                      \* the method called last
    arg,                     \* the frame passed to the last consumePose call
    ret,                     \* what the last call returned, or that it threw
    before,                  \* the scorer's fields when the last call started
    poseP,                   \* the poses handed to the pose metrics when they
    poseQ,                   \*   are called on their own
    heap,                    \* two sessions: the arrays that exist, by identity
    scorers,                 \* two sessions: the two SessionScorer objects
    this,                    \* two sessions: the scorer called last
    request,                 \* server: the POST /levels/create request at hand
    pc,                      \* server: where its handler stands
    responses,               \* server: the responses sent to it
    ffmpeg,                  \* server: the frame extraction run for it
    frameFiles,              \* server: the number of frame files extracted
    fps,                     \* server: the frame rate getVideoInfo reported
    newLevel,                \* server: the Level document being saved
    levels,                  \* server: the stored Level documents
    requests,                \* server: the number of requests received
    pendingStart,            \* creation page: the pending interval start
    creationIntervals,       \* creation page: its intervals state
    useWebcam,               \* viewer: the useWebcam prop
    mediaStream,             \* viewer: the mediaStream prop (0 for null)
    getUserMedia,            \* viewer: the browser has getUserMedia
    srcObject,               \* viewer: videoRef.current.srcObject (0 for null)
    acquiring,               \* viewer: the getUserMedia calls not yet settled
    pipelines,               \* viewer: the processing pipelines created
    cleanup,                 \* viewer: the last effect run returned a cleanup
    stopped,                 \* viewer: the pipelines whose tracks were stopped
    effects,                 \* viewer: the effect runs so far
    error,                   \* viewer: its error state
    detector,                \* transformer: the pose detector has loaded
    transforming,            \* transformer: where transform stands
    inputs,                  \* transformer: the frames handed to transform
    events,                  \* transformer: its calls of setPoses, close, enqueue
    objectId,                \* comparison page: the object id typed (0 for "")
    fetches,                 \* comparison page: the loads in flight, by id
    annotatedVideoUrl,       \* comparison page: the video shown (0 for null)
    levelDataState,          \* comparison page: its levelData state (0 for null)
    scorerRef,               \* comparison page: scorerRef.current (0 for null)
    webcamPose,              \* comparison page: the timestamps of the poses reported
    windowScore              \* comparison page: the score shown

vars == <<levelData, window_size, intervals, lastScoredTimestamp,
          timestamp_scores, current_window_average, op, arg, ret, before,
          poseP, poseQ, heap, scorers, this,
          request, pc, responses, ffmpeg, frameFiles, fps, newLevel, levels,
          requests, pendingStart, creationIntervals,
          useWebcam, mediaStream, getUserMedia, srcObject, acquiring, pipelines,
          cleanup, stopped, effects, error,
          detector, transforming, inputs, events,
          objectId, fetches, annotatedVideoUrl, levelDataState, scorerRef,
          webcamPose, windowScore>>

scorer == <<lastScoredTimestamp, timestamp_scores, current_window_average>>

config == <<levelData, window_size, intervals>>

\* The variables of the level server.
server == <<request, pc, responses, ffmpeg, frameFiles, fps, newLevel, levels,
           requests>>

\* The variables of the level-creation page.
creation == <<pendingStart, creationIntervals>>

\* The variables of a SkeletonViewer.
viewer == <<useWebcam, mediaStream, getUserMedia, srcObject, acquiring,
           pipelines, cleanup, stopped, effects, error>>

\* The variables of the skeleton transformer and the detector it reads.
transformer == <<detector, transforming, inputs, events>>

\* The variables of the pose-comparison page.
page == <<objectId, fetches, annotatedVideoUrl, levelDataState, scorerRef,
         webcamPose, windowScore>>

\* The variables of the React application's components.
client == <<creation, viewer, transformer, page>>

\* The variables no SessionScorer method reads or writes.
outside == <<poseP, poseQ, heap, scorers, this, server, client>>

(***************************************************************************)
(* Bounds of the model.                                                    *)
(***************************************************************************)
\* Fixed-point resolution: Scale units per 1.0.
Scale == 100

\* Timestamps of Spec range over 0..MaxTime.
MaxTime == 3

\* Reference sequences of Spec have at most MaxRefLen entries.
MaxRefLen == 3

\* Timestamps of SpecAlign range over 0..MaxAlignTime, reference sequences
\* have at most MaxAlignLen entries.
MaxAlignTime == 5

MaxAlignLen == 5

(***************************************************************************)
(* Numbers.                                                                *)
(***************************************************************************)
NaN == [k |-> "NaN", v |-> 0]

Infinity == [k |-> "Infinity", v |-> 0]

\* A finite number with fixed-point value v (v / Scale).
Fix(v) == [k |-> "num", v |-> v]

\* An integer literal or integer-valued quantity (a length, a coordinate).
Num(i) == Fix(i * Scale)

IsNum(a) == a.k = "num"

\* a + b
Add(a, b) ==
    IF a.k = "NaN" \/ b.k = "NaN" THEN NaN
    ELSE IF a.k = "Infinity" \/ b.k = "Infinity" THEN Infinity
    ELSE Fix(a.v + b.v)

\* a - b   (Infinity - Infinity is NaN)
Sub(a, b) ==
    IF a.k = "NaN" \/ b.k = "NaN" THEN NaN
    ELSE IF a.k = "Infinity" /\ b.k = "Infinity" THEN NaN
    ELSE IF a.k = "Infinity" \/ b.k = "Infinity" THEN Infinity
    ELSE Fix(a.v - b.v)

\* a * b   (Infinity * 0 is NaN)
Mul(a, b) ==
    IF a.k = "NaN" \/ b.k = "NaN" THEN NaN
    ELSE IF a.k = "Infinity" \/ b.k = "Infinity"
         THEN IF (a.k = "num" /\ a.v = 0) \/ (b.k = "num" /\ b.v = 0)
              THEN NaN ELSE Infinity
    ELSE Fix((a.v * b.v) \div Scale)

\* a / b   (0/0 is NaN, x/0 is Infinity, x/Infinity is 0)
Div(a, b) ==
    IF a.k = "NaN" \/ b.k = "NaN" THEN NaN
    ELSE IF a.k = "Infinity"
         THEN IF b.k = "Infinity" THEN NaN ELSE Infinity
    ELSE IF b.k = "Infinity" THEN Fix(0)
    ELSE IF b.v = 0
         THEN IF a.v = 0 THEN NaN ELSE Infinity
    ELSE Fix((a.v * Scale) \div b.v)

RECURSIVE ISqrtIn(_, _, _)
\* The largest r in lo..hi with r * r <= n (lo * lo <= n is given).
ISqrtIn(n, lo, hi) ==
    IF lo >= hi THEN lo
    ELSE LET mid == (lo + hi + 1) \div 2
         IN  IF mid * mid <= n THEN ISqrtIn(n, mid, hi)
                               ELSE ISqrtIn(n, lo, mid - 1)

\* Math.sqrt.  46340 is the largest integer whose square a 32-bit integer
\* holds; no radicand of the model has a larger root.
Sqrt(a) ==
    IF a.k = "NaN" THEN NaN
    ELSE IF a.k = "Infinity" THEN Infinity
    ELSE IF a.v < 0 THEN NaN
    ELSE LET n == a.v * Scale
         IN  Fix(ISqrtIn(n, 0, IF n > 46340 THEN 46340 ELSE n))

(***************************************************************************)
(* Poses.  A pose is [keypoints |-> sequence of [name, x, y]]; a frame     *)
(* (TimestampedPoses) is [timestamp, poses |-> sequence of poses].         *)
(***************************************************************************)
\* The list with the elements f[1], ..., f[n], built once.
listOf(f, n) == SubSeq(f, 1, n)

RECURSIVE sumFrom(_, _, _)
\* nums.reduce((sum, x) => sum + x, acc): the left fold over nums[i..], in
\* list order.
sumFrom(nums, i, acc) ==
    IF i > Len(nums) THEN acc
    ELSE sumFrom(nums, i + 1, Add(acc, nums[i]))

\* The centroid of a pose's keypoints: [sum x / length, sum y / length].
centroid(keypoints) ==
    LET xs == listOf([i \in 1..Len(keypoints) |-> Num(keypoints[i].x)], Len(keypoints))
        ys == listOf([i \in 1..Len(keypoints) |-> Num(keypoints[i].y)], Len(keypoints))
    IN  << Div(sumFrom(xs, 1, Num(0)), Num(Len(keypoints))),
           Div(sumFrom(ys, 1, Num(0)), Num(Len(keypoints))) >>

\* The keypoints relative to the centroid.
relative(keypoints) ==
    LET c == centroid(keypoints)
    IN  listOf([i \in 1..Len(keypoints) |->
                   [x |-> Sub(Num(keypoints[i].x), c[1]),
                    y |-> Sub(Num(keypoints[i].y), c[2]),
                    name |-> keypoints[i].name]], Len(keypoints))

\* The root mean square distance of relative keypoints from the origin.
rmsd(rel) ==
    LET sq == listOf([i \in 1..Len(rel) |->
                         Add(Mul(rel[i].x, rel[i].x), Mul(rel[i].y, rel[i].y))],
                     Len(rel))
    IN  Sqrt(Div(sumFrom(sq, 1, Num(0)), Num(Len(rel))))

\* The relative keypoints scaled by 1 / rmsd.
final(keypoints) ==
    LET rel == relative(keypoints)
        r == rmsd(rel)
    IN  listOf([i \in 1..Len(rel) |->
                   [x |-> Div(rel[i].x, r), y |-> Div(rel[i].y, r),
                    name |-> rel[i].name]], Len(rel))

RECURSIVE SumPairs(_, _, _, _, _)
\* The double loop over final1 x final2 adding the squared distance of every
\* pair of keypoints with the same name; (i, j) is the loop position.
SumPairs(final1, final2, i, j, sum) ==
    IF i > Len(final1) THEN sum
    ELSE IF j > Len(final2) THEN SumPairs(final1, final2, i + 1, 1, sum)
    ELSE LET kp1 == final1[i]
             kp2 == final2[j]
             dx == Sub(kp1.x, kp2.x)
             dy == Sub(kp1.y, kp2.y)
         IN  SumPairs(final1, final2, i, j + 1,
                      IF kp1.name = kp2.name
                      THEN Add(sum, Add(Mul(dx, dx), Mul(dy, dy)))
                      ELSE sum)

\* comparePoses2D(pose1, pose2) for two pose objects.
comparePoses2D(pose1, pose2) ==
    Sqrt(SumPairs(final(pose1.keypoints), final(pose2.keypoints), 1, 1, Num(0)))

(***************************************************************************)
(* The angle metric.  Angles are fixed-point radians.  Math.atan2 is given *)
(* by its values, to the microradian, at the directions (dy, dx) whose     *)
(* slope is one of 1/3, 1/2, 2/3, 1, 3/2, 2, 3 or which lie on an axis;    *)
(* the body poses of the model keep the keypoints of a triple within three *)
(* grid steps of each other, so no other direction occurs.                 *)
(***************************************************************************)
\* |x| for an integer.
Abs(x) == IF x < 0 THEN -x ELSE x

\* Math.PI in microradians.
PiMicro == 3141593

\* Math.atan(n / d) in microradians, for n, d > 0.
atanMicro(n, d) ==
    CASE n = d         -> 785398
      [] 3 * n = d     -> 321751
      [] 2 * n = d     -> 463648
      [] 3 * n = 2 * d -> 588003
      [] 2 * n = 3 * d -> 982794
      [] n = 2 * d     -> 1107149
      [] n = 3 * d     -> 1249046

\* Math.atan2(y, x) in microradians, for integers y and x.
atan2Micro(y, x) ==
    IF x = 0
    THEN IF y > 0 THEN 1570796 ELSE IF y < 0 THEN -1570796 ELSE 0
    ELSE IF y = 0
    THEN IF x > 0 THEN 0 ELSE PiMicro
    ELSE LET a == atanMicro(Abs(y), Abs(x))
         IN  IF x > 0 THEN (IF y > 0 THEN a ELSE -a)
             ELSE (IF y > 0 THEN PiMicro - a ELSE a - PiMicro)

\* Math.atan2(y, x)
atan2(y, x) == Fix((atan2Micro(y, x) * Scale) \div 1000000)

\* Math.PI
PI == Fix((PiMicro * Scale) \div 1000000)

\* Math.abs
abs(a) == IF IsNum(a) THEN Fix(Abs(a.v)) ELSE a

\* calculateAngleFromPoints(x1, y1, x2, y2, x3, y3)
calculateAngleFromPoints(x1, y1, x2, y2, x3, y3) ==
    Sub(atan2(y2 - y1, x2 - x1), atan2(y3 - y1, x3 - x1))

\* The catalog of joint triples comparePosesByAngles2D walks through.
angles_to_consider ==
    << <<"left_shoulder", "left_elbow", "left_wrist">>,
       <<"right_shoulder", "right_elbow", "right_wrist">>,
       <<"left_hip", "left_knee", "left_ankle">>,
       <<"right_hip", "right_knee", "right_ankle">>,
       <<"left_hip", "left_shoulder", "right_shoulder">>,
       <<"right_hip", "right_shoulder", "left_shoulder">>,
       <<"left_knee", "left_hip", "right_hip">>,
       <<"right_knee", "right_hip", "left_hip">> >>

\* keypoints.find(kp => kp.name == name): the index of the first keypoint
\* with that name, 0 for undefined.
find(keypoints, name) ==
    LET I == { i \in 1..Len(keypoints) : keypoints[i].name = name }
    IN  IF I = {} THEN 0 ELSE CHOOSE i \in I : \A j \in I : i <= j

\* object[key] = value on an object given as the list of its <<key, value>>
\* entries in insertion order: an existing key keeps its place.
put(object, key, value) ==
    IF \E i \in 1..Len(object) : object[i][1] = key
    THEN listOf([i \in 1..Len(object) |->
                    IF object[i][1] = key THEN <<key, value>> ELSE object[i]],
                Len(object))
    ELSE Append(object, <<key, value>>)

\* 100 - Math.abs(angle_one - angle_two) / Math.PI
angleScore(angle_one, angle_two) ==
    Sub(Num(100), Div(abs(Sub(angle_one, angle_two)), PI))

\* An angle named after the first keypoint of its triple.
angleNameFirst(angle) == angle[1]

\* The key an angle's score is stored under: angle[1], the second keypoint.
angleName(angle) == angle[2]

\* A loop body that keeps only the last angle's score as the total.
recordAngleLast(acc, angle, angle_score) ==
    [all_angle_scores |-> put(acc.all_angle_scores, angleName(angle), angle_score),
     total_score |-> angle_score]

\* all_angle_scores[angle[1]] = angle_score; total_score += angle_score
recordAngle(acc, angle, angle_score) ==
    [all_angle_scores |-> put(acc.all_angle_scores, angleName(angle), angle_score),
     total_score |-> Add(acc.total_score, angle_score)]

\* One turn of the loop over angles_to_consider.
angleStep(pose1, pose2, angle, acc) ==
    LET one1 == find(pose1.keypoints, angle[1])
        two1 == find(pose1.keypoints, angle[2])
        three1 == find(pose1.keypoints, angle[3])
        one2 == find(pose2.keypoints, angle[1])
        two2 == find(pose2.keypoints, angle[2])
        three2 == find(pose2.keypoints, angle[3])
    IN  IF one1 = 0 \/ two1 = 0 \/ three1 = 0 \/ one2 = 0 \/ two2 = 0 \/ three2 = 0
        THEN acc
        ELSE LET kp1_one == pose1.keypoints[one1]
                 kp1_two == pose1.keypoints[two1]
                 kp1_three == pose1.keypoints[three1]
                 kp2_one == pose2.keypoints[one2]
                 kp2_two == pose2.keypoints[two2]
                 kp2_three == pose2.keypoints[three2]
                 angle_one == calculateAngleFromPoints(kp1_one.x, kp1_one.y,
                                                       kp1_two.x, kp1_two.y,
                                                       kp1_three.x, kp1_three.y)
                 angle_two == calculateAngleFromPoints(kp2_one.x, kp2_one.y,
                                                       kp2_two.x, kp2_two.y,
                                                       kp2_three.x, kp2_three.y)
             IN  recordAngle(acc, angle, angleScore(angle_one, angle_two))

RECURSIVE anglesFrom(_, _, _, _)
\* The loop over angles_to_consider from its i-th triple on.
anglesFrom(pose1, pose2, i, acc) ==
    IF i > Len(angles_to_consider) THEN acc
    ELSE anglesFrom(pose1, pose2, i + 1,
                    angleStep(pose1, pose2, angles_to_consider[i], acc))

\* comparePosesByAngles2D(pose1, pose2): the returned object's entries.
comparePosesByAngles2D(pose1, pose2) ==
    LET done == anglesFrom(pose1, pose2, 1,
                           [all_angle_scores |-> <<>>, total_score |-> Num(0)])
    IN  put(done.all_angle_scores, "total", done.total_score)

(***************************************************************************)
(* Inputs: the poses a detector can report and the level data a scorer can *)
(* be built with.                                                          *)
(***************************************************************************)
\* A pose object without any keypoint.
PoseEmpty == [keypoints |-> <<>>]

\* A pose with a single keypoint: every keypoint sits on the centroid.
PosePoint == [keypoints |-> << [name |-> "nose", x |-> 1, y |-> 1] >>]

\* Two poses with the same keypoint names and different shapes.
PoseWide ==
    [keypoints |-> << [name |-> "nose", x |-> 0, y |-> 0],
                      [name |-> "left_wrist", x |-> 2, y |-> 0] >>]

PoseTall ==
    [keypoints |-> << [name |-> "nose", x |-> 1, y |-> 0],
                      [name |-> "left_wrist", x |-> 1, y |-> 2] >>]

\* What estimatePoses can report for a live frame: no pose at all, or one.
LivePoseLists == { <<>>, <<PoseEmpty>>, <<PosePoint>>, <<PoseTall>> }

\* What a stored reference frame can hold.
RefPoseLists == { <<>>, <<PosePoint>>, <<PoseWide>> }

\* comparePoses2D over the poses of the model, computed once.
Poses == { PoseEmpty, PosePoint, PoseWide, PoseTall }

poseScores == [pose1 \in Poses, pose2 \in Poses |-> comparePoses2D(pose1, pose2)]

Times == 0..MaxTime

\* The frames handed to consumePose.
LiveFrames == [timestamp : Times, poses : LivePoseLists]

RECURSIVE Ascending(_)
\* The elements of a finite set of integers as an ascending sequence.
Ascending(S) ==
    IF S = {} THEN <<>>
    ELSE LET m == CHOOSE x \in S : \A y \in S : x <= y
         IN  <<m>> \o Ascending(S \ {m})

\* Every pose_data list over the timestamps ts (a sequence) with poses of P
\* in which at most one frame holds something else than the pose PoseWide.
PoseDataOver(ts, P) ==
    { listOf([i \in 1..Len(ts) |-> [timestamp |-> ts[i], poses |-> ps[i]]], Len(ts)) :
        ps \in { q \in [1..Len(ts) -> P] :
                   Cardinality({ i \in 1..Len(ts) : q[i] # <<PoseWide>> }) <= 1 } }

\* Level data whose pose_data is sorted by timestamp, the empty one included.
Levels ==
    { [pose_data |-> pd] :
        pd \in UNION { PoseDataOver(Ascending(S), RefPoseLists) :
                         S \in { R \in SUBSET Times : Cardinality(R) <= MaxRefLen } } }

\* The (window_size, intervals) pairs a scorer is built with; the constructor
\* takes any number as window_size, a negative one included.  The two
\* parameters never meet in the code: consumePose reads window_size only and
\* computeIntervalScores reads intervals only.
Configs ==
    { [window_size |-> 0, intervals |-> << <<2, 3>>, <<0, 1>>, <<1, 3>> >>],
      [window_size |-> 1, intervals |-> << <<2, 3>>, <<0, 1>>, <<1, 3>> >>],
      [window_size |-> 1, intervals |-> <<>>],
      [window_size |-> -1, intervals |-> <<>>] }

(***************************************************************************)
(* SessionScorer.                                                          *)
(***************************************************************************)
RECURSIVE closestSearch(_, _, _, _, _)
\* The binary search of consumePose over pose_data for the timestamp t:
\* left, right and closestPose (an index) are the loop's variables; the
\* result is the index of closestPose when the loop ends.
closestSearch(pose_data, t, left, right, closestPose) ==
    IF left > right THEN closestPose
    ELSE LET mid == (left + right) \div 2
             midPose == pose_data[mid]
             closer == IF Abs(midPose.timestamp - t)
                            < Abs(pose_data[closestPose].timestamp - t)
                       THEN mid ELSE closestPose
         IN  IF midPose.timestamp < t
                 THEN closestSearch(pose_data, t, mid + 1, right, closer)
             ELSE IF midPose.timestamp > t
                 THEN closestSearch(pose_data, t, left, mid - 1, closer)
             ELSE mid

\* The search without the closer-than-closestPose update before the loop
\* narrows: the first entry unless an exact match is met.
closestPoseFirst(pose_data, t) ==
    IF \E i \in 1..Len(pose_data) : pose_data[i].timestamp = t
    THEN pose_data[CHOOSE i \in 1..Len(pose_data) : pose_data[i].timestamp = t]
    ELSE pose_data[1]

\* The nearest entry, the later one of two equally near.
closestPoseLater(pose_data, t) ==
    pose_data[CHOOSE i \in 1..Len(pose_data) :
                 /\ \A j \in 1..Len(pose_data) :
                       Abs(pose_data[i].timestamp - t) <= Abs(pose_data[j].timestamp - t)
                 /\ \A j \in (i + 1)..Len(pose_data) :
                       Abs(pose_data[i].timestamp - t) < Abs(pose_data[j].timestamp - t)]

\* The entry of a non-empty pose_data that consumePose aligns timestamp t to.
closestPoseOf(pose_data, t) ==
    pose_data[closestSearch(pose_data, t, 1, Len(pose_data), 1)]

\* The gate with < in place of <=.
isStaleStrict(closestTimestamp, last) == closestTimestamp < last

\* The gate with = in place of <=.
isStaleEqual(closestTimestamp, last) == closestTimestamp = last

\* "Don't score poses that happened before a pose that was already scored"
isStale(closestTimestamp, last) == closestTimestamp <= last

RECURSIVE startSearch(_, _, _, _, _)
\* The binary search for the start index of the window.
startSearch(scores, window_start, left, right, startIndex) ==
    IF left > right THEN startIndex
    ELSE LET mid == (left + right) \div 2
         IN  IF scores[mid][1] >= window_start
                 THEN startSearch(scores, window_start, left, mid - 1, mid)
                 ELSE startSearch(scores, window_start, mid + 1, right, startIndex)

RECURSIVE endSearch(_, _, _, _, _)
\* The binary search for the end index of the window.
endSearch(scores, window_end, left, right, endIndex) ==
    IF left > right THEN endIndex
    ELSE LET mid == (left + right) \div 2
         IN  IF scores[mid][1] <= window_end
                 THEN endSearch(scores, window_end, mid + 1, right, mid)
                 ELSE endSearch(scores, window_end, left, mid - 1, endIndex)

\* The start of the window searched with > in place of >=.
startIndexAfter(scores, window_start) ==
    IF \E i \in 1..Len(scores) : scores[i][1] > window_start
    THEN CHOOSE i \in 1..Len(scores) :
            /\ scores[i][1] > window_start
            /\ \A j \in 1..(i - 1) : scores[j][1] <= window_start
    ELSE 1

\* The index of the first sample of the window (1-based).
startIndexOf(scores, window_start) ==
    startSearch(scores, window_start, 1, Len(scores), 1)

\* An end index that stops before the samples stamped window_end.
endIndexBefore(scores, window_start, window_end) ==
    LET startIndex == startIndexOf(scores, window_start)
    IN  endSearch(scores, window_end - 1, startIndex, Len(scores), startIndex)

\* The index of the last sample of the window (1-based).
endIndexOf(scores, window_start, window_end) ==
    LET startIndex == startIndexOf(scores, window_start)
    IN  endSearch(scores, window_end, startIndex, Len(scores), startIndex)

\* timestamp_scores.slice(startIndex, endIndex + 1)
windowScores(scores, window_start, window_end) ==
    SubSeq(scores, startIndexOf(scores, window_start),
                   endIndexOf(scores, window_start, window_end))

\* The average of the scores of a list of samples, 0 for the empty list.
average(window_scores) ==
    LET scores == listOf([i \in 1..Len(window_scores) |-> window_scores[i][2]],
                         Len(window_scores))
    IN  IF Len(window_scores) > 0
        THEN Div(sumFrom(scores, 1, Num(0)), Num(Len(window_scores)))
        ELSE Num(0)

\* The window average consumePose computes after recording a sample at T.
windowAverage(scores, T, W) == average(windowScores(scores, T - W, T))

\* The filter with timestamp < end in place of timestamp <= end.
filterScoresOpen(scores, start, end) ==
    SelectSeq(scores, LAMBDA s : s[1] >= start /\ s[1] < end)

\* timestamp_scores.filter(([timestamp, _]) => timestamp >= start && timestamp <= end)
filterScores(scores, start, end) ==
    SelectSeq(scores, LAMBDA s : s[1] >= start /\ s[1] <= end)

\* The list computeIntervalScores returns.
intervalScores(ivs, scores) ==
    listOf([i \in 1..Len(ivs) |->
               average(filterScores(scores, ivs[i][1], ivs[i][2]))], Len(ivs))

\* Results of a call.
Returned(x) == [kind |-> "number", num |-> x, list |-> <<>>]

ReturnedList(xs) == [kind |-> "list", num |-> Num(0), list |-> xs]

\* poses.poses[0] is undefined and comparePoses2D reads its keypoints.
Threw == [kind |-> "threw", num |-> Num(0), list |-> <<>>]

Nothing == [kind |-> "none", num |-> Num(0), list |-> <<>>]

NoFrame == [timestamp |-> 0, poses |-> <<>>]

\* A watermark that takes the live frame's timestamp.
watermarkLive(poses, closestPose) == poses.timestamp

\* this.lastScoredTimestamp = closestPose.timestamp
watermark(poses, closestPose) == closestPose.timestamp

\* A constructor that leaves current_window_average without a number.
newFieldsNoAverage == [lastScoredTimestamp |-> 0, timestamp_scores |-> <<>>,
                       current_window_average |-> NaN]

\* The fields the constructor initialises.
newFields == [lastScoredTimestamp |-> 0, timestamp_scores |-> <<>>,
              current_window_average |-> Num(0)]

Fields == [lastScoredTimestamp |-> lastScoredTimestamp,
           timestamp_scores |-> timestamp_scores,
           current_window_average |-> current_window_average]

(***************************************************************************)
(* The level server: requests and JSON values.  A JSON value is a record   *)
(* [type, str, num, items]; num is a fixed-point number.  The data object  *)
(* of a request is [title, intervals, extra]: its title and intervals      *)
(* properties (undefined when missing) and whether it has any other one.   *)
(***************************************************************************)
\* Requests the server takes before the model stops.
MaxRequests == 1

\* Frames ffmpeg extracts from an uploaded video, at most.
MaxFrames == 2

JUndefined == [type |-> "undefined", str |-> "", num |-> 0, items |-> <<>>]

JString(text) == [type |-> "string", str |-> text, num |-> 0, items |-> <<>>]

JNumber(a) == [type |-> "number", str |-> "", num |-> a.v, items |-> <<>>]

JArray(values) == [type |-> "array", str |-> "", num |-> 0, items |-> values]

\* A function object, such as an express RequestHandler.
JFunction == [type |-> "function", str |-> "", num |-> 0, items |-> <<>>]

\* !value is true: undefined, "" and 0 among the values of the model.
Falsy(value) ==
    \/ value.type = "undefined"
    \/ value.type = "string" /\ value.str = ""
    \/ value.type = "number" /\ value.num = 0

Titles == { JUndefined, JString("Level"), JString(""), JNumber(Num(5)) }

IntervalsValues ==
    { JUndefined,
      JString("x"),
      JArray(<<>>),
      JArray(<< JArray(<< JNumber(Num(0)), JNumber(Num(1)) >>) >>),
      JArray(<< JArray(<< JNumber(Num(0)) >>) >>),
      JArray(<< JArray(<< JNumber(Fix(Scale \div 2)), JNumber(Num(1)) >>) >>) }

DataObjects == [title : Titles, intervals : IntervalsValues, extra : BOOLEAN]

\* req.body.data: a text JSON.parse turns into a data object, or one it
\* throws a SyntaxError on.
DataTexts ==
    [parses : {TRUE}, value : DataObjects]
        \cup { [parses |-> FALSE,
                value |-> [title |-> JUndefined, intervals |-> JUndefined,
                           extra |-> FALSE]] }

\* A request: whether multer found the video file, and req.body.data.
Requests == [file : BOOLEAN, data : DataTexts]

NoRequest == [file |-> FALSE,
              data |-> [parses |-> FALSE,
                        value |-> [title |-> JUndefined, intervals |-> JUndefined,
                                   extra |-> FALSE]]]

\* ajv's verdict on a data object under LevelSchema: title a string,
\* intervals an array of arrays of integers, both required, nothing else.
LevelSchema(data) ==
    /\ data.title.type = "string"
    /\ data.intervals.type = "array"
    /\ \A i \in 1..Len(data.intervals.items) :
          /\ data.intervals.items[i].type = "array"
          /\ \A k \in 1..Len(data.intervals.items[i].items) :
                /\ data.intervals.items[i].items[k].type = "number"
                /\ data.intervals.items[i].items[k].num % Scale = 0
    /\ ~data.extra

\* validateSchema(schema): the middleware factory returns a RequestHandler
\* for the schema it is given, and validates nothing itself.
validateSchema(schema) == JFunction

\* A response: res.status(status).send(body).
Response(status, body) == [status |-> status, body |-> body]

\* No document is being saved.
NoLevel == [title |-> "", intervals |-> <<>>, pose_data |-> <<>>]

\* No request has arrived.
NoServer ==
    /\ request = NoRequest
    /\ pc = "idle"
    /\ responses = <<>>
    /\ ffmpeg = "none"
    /\ frameFiles = 0
    /\ fps = Num(0)
    /\ newLevel = NoLevel
    /\ levels = <<>>
    /\ requests = 0

\* JavaScript's null, where a number may stand.
Null == [k |-> "null", v |-> 0]

\* The level-creation page as mounted: no pending start, no interval.
NoCreation ==
    /\ pendingStart = Null
    /\ creationIntervals = <<>>

\* No SkeletonViewer is mounted.
NoViewer ==
    /\ useWebcam = FALSE
    /\ mediaStream = 0
    /\ getUserMedia = FALSE
    /\ srcObject = 0
    /\ acquiring = 0
    /\ pipelines = 0
    /\ cleanup = FALSE
    /\ stopped = {}
    /\ effects = 0
    /\ error = ""

\* No transformer has been created and the detector has not loaded.
NoTransformer ==
    /\ detector = FALSE
    /\ transforming = "idle"
    /\ inputs = <<>>
    /\ events = <<>>

\* The pose-comparison page as mounted.
NoPage ==
    /\ objectId = 0
    /\ fetches = <<>>
    /\ annotatedVideoUrl = 0
    /\ levelDataState = 0
    /\ scorerRef = 0
    /\ webcamPose = <<>>
    /\ windowScore = Null

\* No component of the React application takes part.
NoClient == NoCreation /\ NoViewer /\ NoTransformer /\ NoPage

\* No pair of sessions takes part.
NoSessions ==
    /\ heap = <<>>
    /\ scorers = <<>>
    /\ this = 0

\* new SessionScorer(levelData, window_size, intervals)
Init ==
    /\ levelData \in Levels
    /\ \E c \in Configs : window_size = c.window_size /\ intervals = c.intervals
    /\ lastScoredTimestamp = newFields.lastScoredTimestamp
    /\ current_window_average = newFields.current_window_average
    /\ timestamp_scores = newFields.timestamp_scores
    /\ op = "new"
    /\ arg = NoFrame
    /\ ret = Nothing
    /\ before = newFields
    /\ poseP = PoseEmpty
    /\ poseQ = PoseEmpty
    /\ NoSessions
    /\ NoServer
    /\ NoClient

\* scorer.consumePose(poses).  With a non-empty pose_data closestPose is an
\* entry of it, so the closestPose == null return is never taken.  Reading
\* .keypoints of poses.poses[0] or closestPose.poses[0] when the list is
\* empty throws out of comparePoses2D before any field is written.
consumePoseCall(poses) ==
    /\ op' = "consumePose"
    /\ arg' = poses
    /\ before' = Fields
    /\ UNCHANGED config
    /\ IF Len(levelData.pose_data) = 0
       THEN /\ ret' = Returned(current_window_average)
            /\ UNCHANGED scorer
       ELSE LET closestPose == closestPoseOf(levelData.pose_data, poses.timestamp)
            IN  IF isStale(closestPose.timestamp, lastScoredTimestamp)
                THEN /\ ret' = Returned(current_window_average)
                     /\ UNCHANGED scorer
                ELSE IF Len(poses.poses) = 0 \/ Len(closestPose.poses) = 0
                THEN /\ ret' = Threw
                     /\ UNCHANGED scorer
                ELSE LET score == poseScores[poses.poses[1], closestPose.poses[1]]
                         pushed == Append(timestamp_scores,
                                          <<closestPose.timestamp, score>>)
                         window_average == windowAverage(pushed, closestPose.timestamp,
                                                         window_size)
                     IN  /\ timestamp_scores' = pushed
                         /\ lastScoredTimestamp' = watermark(poses, closestPose)
                         /\ current_window_average' = window_average
                         /\ ret' = Returned(window_average)

\* scorer.consumePose(poses) on the one scorer of a session.
ConsumePose(poses) ==
    /\ consumePoseCall(poses)
    /\ UNCHANGED outside

\* A computeIntervalScores that takes the samples out of timestamp_scores as
\* it averages them.
ComputeIntervalScoresDraining ==
    /\ op' = "computeIntervalScores"
    /\ arg' = NoFrame
    /\ before' = Fields
    /\ ret' = ReturnedList(intervalScores(intervals, timestamp_scores))
    /\ timestamp_scores' = <<>>
    /\ UNCHANGED <<lastScoredTimestamp, current_window_average>>
    /\ UNCHANGED config
    /\ UNCHANGED outside

\* scorer.computeIntervalScores()
ComputeIntervalScores ==
    /\ op' = "computeIntervalScores"
    /\ arg' = NoFrame
    /\ before' = Fields
    /\ ret' = ReturnedList(intervalScores(intervals, timestamp_scores))
    /\ UNCHANGED config
    /\ UNCHANGED scorer
    /\ UNCHANGED outside

Next ==
    \/ \E poses \in LiveFrames : ConsumePose(poses)
    \/ ComputeIntervalScores

Spec == Init /\ [][Next]_vars

(***************************************************************************)
(* The alignment search over longer reference sequences: every reference   *)
(* frame holds one regular pose and every live frame another.              *)
(***************************************************************************)
AlignLevels ==
    { [pose_data |-> pd] :
        pd \in UNION { PoseDataOver(Ascending(S), { <<PoseWide>> }) :
                         S \in { R \in SUBSET (0..MaxAlignTime) :
                                   Cardinality(R) <= MaxAlignLen } } }

\* Live timestamps reach one past the last possible reference timestamp.
AlignFrames == [timestamp : 0..(MaxAlignTime + 1), poses : { <<PoseTall>> }]

InitAlign ==
    /\ levelData \in AlignLevels
    /\ window_size = 1
    /\ intervals = << <<0, 1>> >>
    /\ lastScoredTimestamp = newFields.lastScoredTimestamp
    /\ current_window_average = newFields.current_window_average
    /\ timestamp_scores = newFields.timestamp_scores
    /\ op = "new"
    /\ arg = NoFrame
    /\ ret = Nothing
    /\ before = newFields
    /\ poseP = PoseEmpty
    /\ poseQ = PoseEmpty
    /\ NoSessions
    /\ NoServer
    /\ NoClient

NextAlign ==
    \/ \E poses \in AlignFrames : ConsumePose(poses)
    \/ ComputeIntervalScores

SpecAlign == InitAlign /\ [][NextAlign]_vars

(***************************************************************************)
(* The pose metrics called on their own: comparePoses2D over pairs of      *)
(* small poses (SpecMetrics) and comparePosesByAngles2D over pairs of      *)
(* body poses with some keypoints missing (SpecAngles).                    *)
(***************************************************************************)
\* The keypoint names the angle catalog mentions, in the detector's order.
BodyNames ==
    << "left_shoulder", "right_shoulder", "left_elbow", "right_elbow",
       "left_wrist", "right_wrist", "left_hip", "right_hip",
       "left_knee", "right_knee", "left_ankle", "right_ankle" >>

\* Where the keypoints of a standing figure lie, as <<x, y>>.
Standing ==
    [left_shoulder |-> <<2, 0>>, right_shoulder |-> <<1, 0>>,
     left_elbow |-> <<3, 1>>, right_elbow |-> <<0, 1>>,
     left_wrist |-> <<3, 2>>, right_wrist |-> <<0, 2>>,
     left_hip |-> <<2, 1>>, right_hip |-> <<1, 1>>,
     left_knee |-> <<2, 2>>, right_knee |-> <<1, 2>>,
     left_ankle |-> <<2, 3>>, right_ankle |-> <<1, 3>>]

\* A figure with the left arm raised, the right forearm folded onto the
\* elbow and the left leg stepped out.
Dancing ==
    [left_shoulder |-> <<2, 1>>, right_shoulder |-> <<1, 1>>,
     left_elbow |-> <<3, 0>>, right_elbow |-> <<0, 2>>,
     left_wrist |-> <<2, 0>>, right_wrist |-> <<0, 2>>,
     left_hip |-> <<2, 2>>, right_hip |-> <<1, 2>>,
     left_knee |-> <<3, 2>>, right_knee |-> <<1, 3>>,
     left_ankle |-> <<3, 3>>, right_ankle |-> <<0, 3>>]

\* The pose with the keypoints of a figure whose names are in present.
bodyPose(figure, present) ==
    LET names == SelectSeq(BodyNames, LAMBDA n : n \in present)
    IN  [keypoints |->
            listOf([i \in 1..Len(names) |->
                       [name |-> names[i], x |-> figure[names[i]][1],
                        y |-> figure[names[i]][2]]], Len(names))]

AllNames == { BodyNames[i] : i \in 1..Len(BodyNames) }

Limbs ==
    { {"left_shoulder", "left_elbow", "left_wrist"},
      {"right_shoulder", "right_elbow", "right_wrist"},
      {"left_hip", "left_knee", "left_ankle"},
      {"right_hip", "right_knee", "right_ankle"} }

\* The keypoints a detector reported: some whole limbs.
LimbSets == { UNION L : L \in SUBSET Limbs }

\* All keypoints but one.
AllButOne == { AllNames \ {n} : n \in AllNames }

\* The poses the angle metric is called on.
BodyPoses ==
    { bodyPose(Standing, present) : present \in LimbSets \cup AllButOne }
        \cup { bodyPose(Dancing, present) : present \in LimbSets }

\* The poses the positional metric is called on: the poses of the scorer's
\* frames and single limbs of the two figures.
MetricPoses ==
    Poses \cup { bodyPose(figure, limb) :
                    figure \in { Standing, Dancing }, limb \in Limbs }

\* Moving a pose: every keypoint scaled by factor, then shifted by (dx, dy).
Motions ==
    { [factor |-> 1, dx |-> 0, dy |-> 0],
      [factor |-> 1, dx |-> 2, dy |-> -1],
      [factor |-> 3, dx |-> 0, dy |-> 0] }

moved(pose, motion) ==
    [keypoints |->
        listOf([i \in 1..Len(pose.keypoints) |->
                   [name |-> pose.keypoints[i].name,
                    x |-> motion.factor * pose.keypoints[i].x + motion.dx,
                    y |-> motion.factor * pose.keypoints[i].y + motion.dy]],
               Len(pose.keypoints))]

ReturnedObject(entries) == [kind |-> "object", num |-> Num(0), list |-> entries]

\* No scorer takes part: its variables keep the values of a scorer built by
\* new SessionScorer({pose_data: []}).
NoSession ==
    /\ levelData = [pose_data |-> <<>>]
    /\ window_size = 5000
    /\ intervals = <<>>
    /\ lastScoredTimestamp = newFields.lastScoredTimestamp
    /\ current_window_average = newFields.current_window_average
    /\ timestamp_scores = newFields.timestamp_scores
    /\ op = "new"
    /\ arg = NoFrame
    /\ ret = Nothing
    /\ before = newFields

InitMetrics ==
    /\ poseP \in MetricPoses
    /\ poseQ \in MetricPoses
    /\ NoSession
    /\ NoSessions
    /\ NoServer
    /\ NoClient

InitAngles ==
    /\ poseP \in BodyPoses
    /\ poseQ \in BodyPoses
    /\ NoSession
    /\ NoSessions
    /\ NoServer
    /\ NoClient

\* comparePoses2D(pose1, poseQ) with pose1 a moved copy of poseP; arg keeps
\* the two poses passed.
ComparePoses2D(motion) ==
    LET pose1 == moved(poseP, motion)
    IN  /\ op' = "comparePoses2D"
        /\ arg' = [timestamp |-> 0, poses |-> <<pose1, poseQ>>]
        /\ ret' = Returned(comparePoses2D(pose1, poseQ))
        /\ UNCHANGED <<before, config, scorer, outside>>

\* comparePosesByAngles2D(poseP, poseQ)
ComparePosesByAngles2D ==
    /\ op' = "comparePosesByAngles2D"
    /\ arg' = [timestamp |-> 0, poses |-> <<poseP, poseQ>>]
    /\ ret' = ReturnedObject(comparePosesByAngles2D(poseP, poseQ))
    /\ UNCHANGED <<before, config, scorer, outside>>

NextMetrics == \E motion \in Motions : ComparePoses2D(motion)

SpecMetrics == InitMetrics /\ [][NextMetrics]_vars

NextAngles == ComparePosesByAngles2D

SpecAngles == InitAngles /\ [][NextAngles]_vars

(***************************************************************************)
(* Two sessions side by side.  Arrays are objects with an identity: heap   *)
(* lists the arrays that exist and a scorer's levelData, intervals and     *)
(* timestamp_scores fields hold references (indices) into it.  heap[1] is  *)
(* the pose_data of the one level data object both scorers are built with, *)
(* heap[2] an intervals array of the caller.                               *)
(***************************************************************************)
\* One empty array that every `[]` evaluates to.
sharedArray(h) ==
    IF Len(h) > 2 THEN [heap |-> h, ref |-> 3]
    ELSE [heap |-> Append(h, <<>>), ref |-> Len(h) + 1]

\* Evaluating `[]`: a new array, distinct from every existing one.
newArray(h) == [heap |-> Append(h, <<>>), ref |-> Len(h) + 1]

\* new SessionScorer(levelData, window_size, intervals) in heap h; intervals
\* is a reference, or 0 when the argument is left out and the default `= []`
\* is evaluated.
construct(h, levelRef, windowSize, intervalsRef) ==
    LET default == IF intervalsRef = 0 THEN newArray(h)
                   ELSE [heap |-> h, ref |-> intervalsRef]
        scores == newArray(default.heap)
    IN  [heap |-> scores.heap,
         scorer |-> [levelData |-> levelRef,
                     lastScoredTimestamp |-> 0,
                     window_size |-> windowSize,
                     current_window_average |-> Num(0),
                     intervals |-> default.ref,
                     timestamp_scores |-> scores.ref]]

\* Reference sequences and live frames of the two sessions.
PairLevels ==
    UNION { PoseDataOver(Ascending(S), { <<PoseWide>> }) : S \in SUBSET Times }

PairFrames == [timestamp : Times, poses : { <<PoseTall>>, <<>> }]

\* Both scorers are built with the same level data object; each is given the
\* caller's intervals array or none.
InitPair ==
    /\ \E pose_data \in PairLevels, given1, given2 \in {0, 2} :
          LET h == << pose_data, << <<0, 1>> >> >>
              one == construct(h, 1, 1, given1)
              two == construct(one.heap, 1, 1, given2)
          IN  /\ heap = two.heap
              /\ scorers = << one.scorer, two.scorer >>
    /\ this = 0
    /\ poseP = PoseEmpty
    /\ poseQ = PoseEmpty
    /\ NoSession
    /\ NoServer
    /\ NoClient

\* scorers[i].consumePose(poses): consumePose with the fields of scorers[i]
\* and the arrays they refer to.
ConsumePoseOn(i, poses) ==
    LET self == scorers[i]
        pose_data == heap[self.levelData]
        scores == heap[self.timestamp_scores]
    IN  /\ op' = "consumePose"
        /\ this' = i
        /\ arg' = poses
        /\ before' = [lastScoredTimestamp |-> self.lastScoredTimestamp,
                      timestamp_scores |-> scores,
                      current_window_average |-> self.current_window_average]
        /\ UNCHANGED <<config, scorer, poseP, poseQ, server, client>>
        /\ IF Len(pose_data) = 0
           THEN /\ ret' = Returned(self.current_window_average)
                /\ UNCHANGED <<heap, scorers>>
           ELSE LET closestPose == closestPoseOf(pose_data, poses.timestamp)
                IN  IF isStale(closestPose.timestamp, self.lastScoredTimestamp)
                    THEN /\ ret' = Returned(self.current_window_average)
                         /\ UNCHANGED <<heap, scorers>>
                    ELSE IF Len(poses.poses) = 0 \/ Len(closestPose.poses) = 0
                    THEN /\ ret' = Threw
                         /\ UNCHANGED <<heap, scorers>>
                    ELSE LET score == poseScores[poses.poses[1], closestPose.poses[1]]
                             pushed == Append(scores, <<closestPose.timestamp, score>>)
                             window_average == windowAverage(pushed,
                                                             closestPose.timestamp,
                                                             self.window_size)
                         IN  /\ heap' = [heap EXCEPT ![self.timestamp_scores] = pushed]
                             /\ scorers' = [scorers EXCEPT
                                    ![i].lastScoredTimestamp = closestPose.timestamp,
                                    ![i].current_window_average = window_average]
                             /\ ret' = Returned(window_average)

NextPair == \E i \in 1..2, poses \in PairFrames : ConsumePoseOn(i, poses)

SpecPair == InitPair /\ [][NextPair]_vars

(***************************************************************************)
(* POST /levels/create.  The handler runs up to its first await (the frame *)
(* extraction), resumes when ffmpeg and the processing after it end, and   *)
(* leaves the response of a successful run to the callback of              *)
(* newLevel.save().  One request is handled at a time.                     *)
(***************************************************************************)
\* What mongoose's String cast makes of a title.
castTitle(title) ==
    IF title.type = "string" THEN title.str
    ELSE IF title.type = "number" /\ title.num = Num(5).v THEN "5"
    ELSE ""

\* The Level model's intervals validator: every interval is a pair of
\* numbers.
pairsOfNumbers(intervalsValue) ==
    /\ intervalsValue.type = "array"
    /\ \A i \in 1..Len(intervalsValue.items) :
          /\ intervalsValue.items[i].type = "array"
          /\ Len(intervalsValue.items[i].items) = 2
          /\ \A k \in 1..2 : intervalsValue.items[i].items[k].type = "number"

\* How newLevel.save() can end for a data object: title is required with
\* minlength 1, intervals must pass the validator.  A missing intervals
\* becomes the empty array, which the required check accepts or refuses
\* depending on the mongoose version.
saveOutcomes(data) ==
    IF castTitle(data.title) = "" THEN { "rejected" }
    ELSE IF data.intervals.type = "undefined" THEN { "resolved", "rejected" }
    ELSE IF pairsOfNumbers(data.intervals) THEN { "resolved" }
    ELSE { "rejected" }

\* The frame rates getVideoInfo reports, as <<num, den>> of avg_frame_rate.
FrameRates == { <<25, 1>>, <<30, 1>> }

\* A frame loop that stamps the i-th frame (from 0) with ((i + 1) * 1000) / fps.
framePosesFromOne(frames, rate) ==
    listOf([n \in 1..frames |->
               [timestamp |-> Div(Num(n * 1000), rate),
                poses |-> <<PoseWide>>]], frames)

\* The poses array the frame loop builds: the i-th frame (from 0) gets
\* timestamp (i * 1000) / fps.
framePoses(frames, rate) ==
    listOf([n \in 1..frames |->
               [timestamp |-> Div(Num((n - 1) * 1000), rate),
                poses |-> <<PoseWide>>]], frames)

\* The Level document of a request: new Level({title, intervals, pose_data}).
levelOf(data, pose_data) ==
    [title |-> castTitle(data.title),
     intervals |-> data.intervals.items,
     pose_data |-> pose_data]

\* The request arrives and the handler runs up to the frame extraction.
PostCreate(req) ==
    /\ pc = "idle"
    /\ requests < MaxRequests
    /\ requests' = requests + 1
    /\ request' = req
    /\ UNCHANGED <<frameFiles, fps, newLevel, levels>>
    /\ IF ~req.file
       THEN /\ responses' = << Response(400, "No video file uploaded for level") >>
            /\ ffmpeg' = "none"
            /\ pc' = "idle"
       ELSE IF ~req.data.parses
       THEN /\ responses' = << Response(500, "Failed to process video") >>
            /\ ffmpeg' = "none"
            /\ pc' = "idle"
       ELSE IF Falsy(validateSchema(req.data.value))
       THEN /\ responses' = << Response(400, "Invalid JSON data uploaded for level") >>
            /\ ffmpeg' = "none"
            /\ pc' = "idle"
       ELSE /\ responses' = <<>>
            /\ ffmpeg' = "running"
            /\ pc' = "extracting"
    /\ UNCHANGED <<config, scorer, op, arg, ret, before, poseP, poseQ,
                   heap, scorers, this, client>>

\* ffmpeg, ffprobe, the pose detector or the encoder fails: the catch block
\* answers 500.
ProcessingFailed ==
    /\ pc = "extracting"
    /\ responses' = << Response(500, "Failed to process video") >>
    /\ ffmpeg' = "failed"
    /\ pc' = "idle"
    /\ UNCHANGED <<request, frameFiles, fps, newLevel, levels, requests>>
    /\ UNCHANGED <<config, scorer, op, arg, ret, before, poseP, poseQ,
                   heap, scorers, this, client>>

\* The extraction ends with frames frames, the poses are estimated, the
\* annotated video is encoded and newLevel.save() is called; how the save
\* ends is settled by SaveResolved or SaveRejected.
FramesExtracted(frames, rate) ==
    /\ pc = "extracting"
    /\ ffmpeg' = "ended"
    /\ pc' = "saving"
    /\ frameFiles' = frames
    /\ fps' = Div(Num(rate[1]), Num(rate[2]))
    /\ newLevel' = levelOf(request.data.value, framePoses(frames, fps'))
    /\ UNCHANGED <<request, responses, levels, requests>>
    /\ UNCHANGED <<config, scorer, op, arg, ret, before, poseP, poseQ,
                   heap, scorers, this, client>>

\* save() resolves: the document is stored and the callback answers, with
\* the id or, without a database connection, with 500.
SaveResolved(connected) ==
    /\ pc = "saving"
    /\ "resolved" \in saveOutcomes(request.data.value)
    /\ levels' = Append(levels, newLevel)
    /\ newLevel' = NoLevel
    /\ responses' = << IF connected
                       THEN Response(200, "doc._id")
                       ELSE Response(500, "Error connecting with database to store video files") >>
    /\ pc' = "idle"
    /\ UNCHANGED <<request, ffmpeg, frameFiles, fps, requests>>
    /\ UNCHANGED <<config, scorer, op, arg, ret, before, poseP, poseQ,
                   heap, scorers, this, client>>

\* save() rejects: nothing is stored, and no rejection handler is attached,
\* so no response is sent.
SaveRejected ==
    /\ pc = "saving"
    /\ "rejected" \in saveOutcomes(request.data.value)
    /\ newLevel' = NoLevel
    /\ pc' = "idle"
    /\ UNCHANGED <<request, responses, ffmpeg, frameFiles, fps, levels, requests>>
    /\ UNCHANGED <<config, scorer, op, arg, ret, before, poseP, poseQ,
                   heap, scorers, this, client>>

InitCreate ==
    /\ NoServer
    /\ NoClient
    /\ NoSession
    /\ NoSessions
    /\ poseP = PoseEmpty
    /\ poseQ = PoseEmpty

NextCreate ==
    \/ \E req \in Requests : PostCreate(req)
    \/ ProcessingFailed
    \/ \E frames \in 0..MaxFrames, rate \in FrameRates : FramesExtracted(frames, rate)
    \/ \E connected \in BOOLEAN : SaveResolved(connected)
    \/ SaveRejected

SpecCreate == InitCreate /\ [][NextCreate]_vars

\* What the handler of a request at hand does sooner or later: ffmpeg ends or
\* fails, the save resolves or rejects.
HandlerStep ==
    \/ ProcessingFailed
    \/ \E frames \in 0..MaxFrames, rate \in FrameRates : FramesExtracted(frames, rate)
    \/ \E connected \in BOOLEAN : SaveResolved(connected)
    \/ SaveRejected

SpecCreateLive == SpecCreate /\ WF_vars(HandlerStep)

(***************************************************************************)
(* The level-creation page: Mark Start, Mark End and Delete over the       *)
(* playback time of the video, a number of milliseconds with a fraction.   *)
(***************************************************************************)
\* The page holds at most MaxIntervals intervals.
MaxIntervals == 2

\* Playback times run over the quarters of a millisecond up to MaxPlayback.
MaxPlayback == 8

\* currentTimeMs(): videoRef.current.currentTime * 1000
PlaybackTimes == { Fix((n * Scale) \div 4) : n \in 0..MaxPlayback }

\* Math.round: the nearest integer, a half rounded up.
round(a) == Num((2 * a.v + Scale) \div (2 * Scale))

\* setPendingStart(currentTimeMs())
HandleStartInterval(currentTimeMs) ==
    /\ op' = "handleStartInterval"
    /\ pendingStart' = currentTimeMs
    /\ UNCHANGED creationIntervals
    /\ UNCHANGED <<config, scorer, arg, ret, before, poseP, poseQ,
                   heap, scorers, this, server, viewer, transformer, page>>

\* Mark End: nothing without a pending start or at a time not after it;
\* otherwise the rounded pair is appended and the pending start cleared.
HandleEndInterval(currentTimeMs) ==
    /\ op' = "handleEndInterval"
    /\ IF pendingStart = Null
       THEN UNCHANGED creation
       ELSE IF currentTimeMs.v <= pendingStart.v
       THEN UNCHANGED creation
       ELSE /\ Len(creationIntervals) < MaxIntervals
            /\ creationIntervals' = Append(creationIntervals,
                                           <<round(pendingStart), round(currentTimeMs)>>)
            /\ pendingStart' = Null
    /\ UNCHANGED <<config, scorer, arg, ret, before, poseP, poseQ,
                   heap, scorers, this, server, viewer, transformer, page>>

\* setIntervals(prev => prev.filter((_, i) => i !== idx))
DeleteInterval(idx) ==
    /\ idx \in 1..Len(creationIntervals)
    /\ op' = "deleteInterval"
    /\ creationIntervals' = SubSeq(creationIntervals, 1, idx - 1)
                               \o SubSeq(creationIntervals, idx + 1,
                                         Len(creationIntervals))
    /\ UNCHANGED pendingStart
    /\ UNCHANGED <<config, scorer, arg, ret, before, poseP, poseQ,
                   heap, scorers, this, server, viewer, transformer, page>>

InitIntervals ==
    /\ NoSession
    /\ NoSessions
    /\ NoServer
    /\ NoCreation
    /\ NoViewer
    /\ NoTransformer
    /\ NoPage
    /\ poseP = PoseEmpty
    /\ poseQ = PoseEmpty

NextIntervals ==
    \/ \E t \in PlaybackTimes : HandleStartInterval(t)
    \/ \E t \in PlaybackTimes : HandleEndInterval(t)
    \/ \E idx \in 1..MaxIntervals : DeleteInterval(idx)

SpecIntervals == InitIntervals /\ [][NextIntervals]_vars

(***************************************************************************)
(* A mounted SkeletonViewer: its effect, which depends on the mediaStream  *)
(* prop, and the webcam acquisitions the effect starts.  A media stream is *)
(* a number from 1, null is 0; a pipeline is the number it was created as. *)
(***************************************************************************)
\* The parent passes one of MaxStreams media streams, or null.
MaxStreams == 2

\* The effect runs at most MaxEffects times.
MaxEffects == 4

\* The effect's body for the props of the render at hand: the guard on
\* srcObject, then setupAndRun up to its first await.
runEffect(stream) ==
    IF srcObject # 0
    THEN /\ cleanup' = FALSE
         /\ UNCHANGED <<srcObject, acquiring, pipelines, error>>
    ELSE /\ cleanup' = TRUE
         /\ IF useWebcam
            THEN IF ~getUserMedia
                 THEN /\ error' = "Your browser does not support accessing the webcam."
                      /\ UNCHANGED <<srcObject, acquiring, pipelines>>
                 ELSE /\ acquiring' = acquiring + 1
                      /\ UNCHANGED <<srcObject, pipelines, error>>
            ELSE IF stream = 0
                 THEN UNCHANGED <<srcObject, acquiring, pipelines, error>>
                 ELSE /\ pipelines' = pipelines + 1
                      /\ srcObject' = pipelines + 1
                      /\ UNCHANGED <<acquiring, error>>

\* The component is mounted and its effect runs for the first time.
Mount ==
    /\ effects = 0
    /\ effects' = 1
    /\ runEffect(mediaStream)
    /\ UNCHANGED <<useWebcam, mediaStream, getUserMedia, stopped>>
    /\ UNCHANGED <<config, scorer, op, arg, ret, before, poseP, poseQ,
                   heap, scorers, this, server, creation, transformer, page>>

\* The parent passes another mediaStream: the cleanup of the last effect run
\* stops the tracks of the stream shown, then the effect runs again.
MediaStreamChanged(stream) ==
    /\ effects \in 1..(MaxEffects - 1)
    /\ stream # mediaStream
    /\ effects' = effects + 1
    /\ mediaStream' = stream
    /\ stopped' = IF cleanup /\ srcObject # 0 THEN stopped \cup {srcObject}
                  ELSE stopped
    /\ runEffect(stream)
    /\ UNCHANGED <<useWebcam, getUserMedia>>
    /\ UNCHANGED <<config, scorer, op, arg, ret, before, poseP, poseQ,
                   heap, scorers, this, server, creation, transformer, page>>

\* A getUserMedia call settles: with a stream, setupAndRun goes on to create
\* the pipeline and show its output; refused, it sets the error.
AcquisitionSettled(granted) ==
    /\ acquiring > 0
    /\ acquiring' = acquiring - 1
    /\ IF granted
       THEN /\ pipelines' = pipelines + 1
            /\ srcObject' = pipelines + 1
            /\ UNCHANGED error
       ELSE /\ error' = "Could not access webcam or initialize model. Please grant permission."
            /\ UNCHANGED <<srcObject, pipelines>>
    /\ UNCHANGED <<useWebcam, mediaStream, getUserMedia, cleanup, stopped, effects>>
    /\ UNCHANGED <<config, scorer, op, arg, ret, before, poseP, poseQ,
                   heap, scorers, this, server, creation, transformer, page>>

InitViewer ==
    /\ NoSession
    /\ NoSessions
    /\ NoServer
    /\ NoCreation
    /\ NoTransformer
    /\ NoPage
    /\ poseP = PoseEmpty
    /\ poseQ = PoseEmpty
    /\ useWebcam \in BOOLEAN
    /\ mediaStream \in 0..MaxStreams
    /\ getUserMedia \in BOOLEAN
    /\ srcObject = 0
    /\ acquiring = 0
    /\ pipelines = 0
    /\ cleanup = FALSE
    /\ stopped = {}
    /\ effects = 0
    /\ error = ""

NextViewer ==
    \/ Mount
    \/ \E stream \in 0..MaxStreams : MediaStreamChanged(stream)
    \/ \E granted \in BOOLEAN : AcquisitionSettled(granted)

SpecViewer == InitViewer /\ [][NextViewer]_vars

(***************************************************************************)
(* The skeleton transformer.  The stream hands transform one frame at a    *)
(* time and the next one only when the promise of the last has settled.    *)
(* A frame is the number it arrived as; inputs keeps its timestamp (in     *)
(* microseconds), whether the detector was loaded when it arrived and      *)
(* whether its canvas gave a 2D context.  events is the sequence of the    *)
(* calls the transformer made: setPoses, videoFrame.close and              *)
(* controller.enqueue.  estimatePoses is taken to resolve.                 *)
(***************************************************************************)
\* The stream carries at most MaxVideoFrames frames.
MaxVideoFrames == 3

\* VideoFrame.timestamp of the frames, in microseconds.
FrameTimestamps == { 0, 1500, 33333 }

\* What estimatePoses may find.
EstimatedPoses == { <<>>, <<PoseWide>> }

\* controller.enqueue of a frame with a timestamp, the original or a new one.
enqueued(frame, timestamp, annotated) ==
    [type |-> "enqueue", frame |-> frame, timestamp |-> Num(timestamp),
     annotated |-> annotated, poses |-> <<>>]

\* videoFrame.close()
closed(frame) ==
    [type |-> "close", frame |-> frame, timestamp |-> Num(0),
     annotated |-> FALSE, poses |-> <<>>]

\* setPoses({poses, timestamp})
reported(frame, timestamp, poses) ==
    [type |-> "setPoses", frame |-> frame, timestamp |-> timestamp,
     annotated |-> FALSE, poses |-> poses]

\* What transform does once estimatePoses has resolved: report the poses
\* with timestamp / 1000, close the frame, enqueue a new frame with the
\* frame's timestamp.
annotate(frame, timestamp, poses) ==
    << reported(frame, Div(Num(timestamp), Num(1000)), poses),
       closed(frame),
       enqueued(frame, timestamp, TRUE) >>

\* tf.ready().then(() => createDetector(...).then(result => detector = result))
DetectorLoaded ==
    /\ ~detector
    /\ detector' = TRUE
    /\ UNCHANGED <<transforming, inputs, events>>
    /\ UNCHANGED <<config, scorer, op, arg, ret, before, poseP, poseQ,
                   heap, scorers, this, server, creation, viewer, page>>

\* transform(videoFrame, controller) up to its await: without the detector
\* or the 2D context the frame is passed on as it is.
Transform(timestamp, ctx) ==
    /\ transforming = "idle"
    /\ Len(inputs) < MaxVideoFrames
    /\ inputs' = Append(inputs, [timestamp |-> timestamp, detector |-> detector,
                                 ctx |-> ctx])
    /\ IF ~detector \/ ~ctx
       THEN /\ events' = Append(events, enqueued(Len(inputs) + 1, timestamp, FALSE))
            /\ UNCHANGED transforming
       ELSE /\ transforming' = "estimating"
            /\ UNCHANGED events
    /\ UNCHANGED detector
    /\ UNCHANGED <<config, scorer, op, arg, ret, before, poseP, poseQ,
                   heap, scorers, this, server, creation, viewer, page>>

\* detector.estimatePoses resolves and transform runs on.  setPoses is the
\* caller's function and is called with nothing to catch what it throws
\* (handleWebcamPose throws when consumePose does): transform then ends at
\* that call, its promise rejects and the stream is errored.
PosesEstimated(poses, thrown) ==
    /\ transforming = "estimating"
    /\ IF thrown
       THEN /\ transforming' = "errored"
            /\ events' = Append(events,
                                reported(Len(inputs),
                                         Div(Num(inputs[Len(inputs)].timestamp), Num(1000)),
                                         poses))
       ELSE /\ transforming' = "idle"
            /\ events' = events \o annotate(Len(inputs),
                                             inputs[Len(inputs)].timestamp, poses)
    /\ UNCHANGED <<detector, inputs>>
    /\ UNCHANGED <<config, scorer, op, arg, ret, before, poseP, poseQ,
                   heap, scorers, this, server, creation, viewer, page>>

InitTransformer ==
    /\ NoSession
    /\ NoSessions
    /\ NoServer
    /\ NoClient
    /\ poseP = PoseEmpty
    /\ poseQ = PoseEmpty

NextTransformer ==
    \/ DetectorLoaded
    \/ \E timestamp \in FrameTimestamps, ctx \in BOOLEAN : Transform(timestamp, ctx)
    \/ \E poses \in EstimatedPoses, thrown \in BOOLEAN : PosesEstimated(poses, thrown)

SpecTransformer == InitTransformer /\ [][NextTransformer]_vars

(***************************************************************************)
(* The pose-comparison page.  An object id is a number from 1, 0 the empty *)
(* text; the server holds one level and one annotated video per id, and a  *)
(* video URL is the id it was fetched for.  The scorer that scorerRef      *)
(* holds is the one of levelData, window_size, intervals and the scorer    *)
(* fields; scorerRef keeps the id its level was fetched for.               *)
(***************************************************************************)
\* The object ids the user may type are 1..MaxObjectIds.
MaxObjectIds == 2

\* At most MaxFetches loads are in flight at once.
MaxFetches == 2

\* The webcam reports at most MaxPoses frames.
MaxPoses == 2

\* The level the server holds for an object id: from the second id on, the
\* reference frames start at timestamp 0.
levelOfId(id) ==
    [pose_data |->
        listOf([i \in 1..2 |-> [timestamp |-> IF id = 1 THEN i ELSE i - 1,
                                poses |-> <<PoseWide>>]], 2)]

\* What the webcam's transformer reports; handleWebcamPose stamps it with
\* the playback time of the video.
WebcamPoses == { <<>>, <<PoseTall>> }

\* A load that pairs the video of the id with the level of the first id.
loadedMixed(id) == [videoUrl |-> id, level |-> 1]

\* What Promise.all([getAnnotatedVideo(objectId), getLevel(objectId)])
\* resolves to: the ids the video URL and the level were fetched for.
loaded(id) == [videoUrl |-> id, level |-> id]

\* onChange of the text box: setObjectId(e.target.value)
SetObjectId(id) ==
    /\ objectId' = id
    /\ UNCHANGED <<fetches, annotatedVideoUrl, levelDataState, scorerRef,
                   webcamPose, windowScore>>
    /\ UNCHANGED <<config, scorer, op, arg, ret, before, poseP, poseQ,
                   heap, scorers, this, server, creation, viewer, transformer>>

\* handleFetch up to its await: nothing without an object id.
HandleFetch ==
    /\ Len(fetches) < MaxFetches
    /\ fetches' = IF objectId = 0 THEN fetches ELSE Append(fetches, objectId)
    /\ UNCHANGED <<objectId, annotatedVideoUrl, levelDataState, scorerRef,
                   webcamPose, windowScore>>
    /\ UNCHANGED <<config, scorer, op, arg, ret, before, poseP, poseQ,
                   heap, scorers, this, server, creation, viewer, transformer>>

\* One of the loads in flight settles.  Resolved, handleFetch sets the video
\* and the level and installs new SessionScorer(level, 5000, []); rejected,
\* it alerts and leaves everything as it was.
FetchSettled(i, resolved) ==
    /\ i \in 1..Len(fetches)
    /\ fetches' = SubSeq(fetches, 1, i - 1) \o SubSeq(fetches, i + 1, Len(fetches))
    /\ IF resolved
       THEN LET result == loaded(fetches[i])
            IN  /\ annotatedVideoUrl' = result.videoUrl
                /\ levelDataState' = result.level
                /\ scorerRef' = result.level
                /\ levelData' = levelOfId(result.level)
                /\ window_size' = 5000
                /\ intervals' = <<>>
                /\ lastScoredTimestamp' = newFields.lastScoredTimestamp
                /\ timestamp_scores' = newFields.timestamp_scores
                /\ current_window_average' = newFields.current_window_average
                /\ op' = "handleFetch"
                /\ arg' = NoFrame
                /\ ret' = Nothing
                /\ before' = Fields
       ELSE /\ UNCHANGED <<annotatedVideoUrl, levelDataState, scorerRef>>
            /\ UNCHANGED <<config, scorer, op, arg, ret, before>>
    /\ UNCHANGED <<objectId, webcamPose, windowScore>>
    /\ UNCHANGED <<poseP, poseQ, heap, scorers, this, server, creation, viewer,
                   transformer>>

\* handleWebcamPose(data): the frame is stamped with the playback time, kept
\* in webcamPose and, when a scorer is installed, handed to consumePose,
\* whose number becomes the window score.
HandleWebcamPose(currentTimeMs, poses) ==
    LET data == [timestamp |-> currentTimeMs, poses |-> poses]
    IN  /\ Len(webcamPose) < MaxPoses
        /\ webcamPose' = Append(webcamPose, data.timestamp)
        /\ IF scorerRef # 0
           THEN /\ consumePoseCall(data)
                /\ windowScore' = IF ret'.kind = "number" THEN ret'.num
                                  ELSE windowScore
           ELSE /\ op' = "handleWebcamPose"
                /\ arg' = data
                /\ ret' = Nothing
                /\ before' = Fields
                /\ UNCHANGED <<config, scorer, windowScore>>
        /\ UNCHANGED <<objectId, fetches, annotatedVideoUrl, levelDataState,
                       scorerRef>>
        /\ UNCHANGED <<poseP, poseQ, heap, scorers, this, server, creation,
                       viewer, transformer>>

InitPage ==
    /\ NoSession
    /\ NoSessions
    /\ NoServer
    /\ NoClient
    /\ poseP = PoseEmpty
    /\ poseQ = PoseEmpty

NextPage ==
    \/ \E id \in 0..MaxObjectIds : SetObjectId(id)
    \/ HandleFetch
    \/ \E i \in 1..MaxFetches, resolved \in BOOLEAN : FetchSettled(i, resolved)
    \/ \E t \in Times, poses \in WebcamPoses : HandleWebcamPose(t, poses)

SpecPage == InitPage /\ [][NextPage]_vars

(***************************************************************************)
(* Properties.                                                             *)
(***************************************************************************)
\* The last call was consumePose against a non-empty reference sequence.
Consumed == op = "consumePose" /\ Len(levelData.pose_data) > 0

\* The reference frame the last consumePose call aligned its frame to.
Aligned == closestPoseOf(levelData.pose_data, arg.timestamp)

\* The last consumePose call recorded a sample.
Recorded == op = "consumePose" /\ Len(timestamp_scores) > Len(before.timestamp_scores)

\* The indices of the samples with lo <= timestamp <= hi.
InRange(scores, lo, hi) ==
    { i \in 1..Len(scores) : lo <= scores[i][1] /\ scores[i][1] <= hi }

RECURSIVE SumOf(_, _)
\* The sum of the scores of the samples with index in I.
SumOf(scores, I) ==
    IF I = {} THEN Num(0)
    ELSE LET i == CHOOSE x \in I : TRUE
         IN  Add(scores[i][2], SumOf(scores, I \ {i}))

\* The arithmetic mean of the scores of the samples with index in I, 0 if none.
MeanOf(scores, I) ==
    IF I = {} THEN Num(0) ELSE Div(SumOf(scores, I), Num(Cardinality(I)))

\* A pose with no keypoint, or with all keypoints on the centroid.
Degenerate(pose) ==
    \/ Len(pose.keypoints) = 0
    \/ rmsd(relative(pose.keypoints)) = Num(0)

\* C1: the recorded samples are strictly ascending by timestamp.
C1_StrictlyAscending ==
    \A i, j \in 1..Len(timestamp_scores) :
        i < j => timestamp_scores[i][1] < timestamp_scores[j][1]

C1_Witness ==
    /\ Recorded
    /\ Len(timestamp_scores) >= 3

\* C2: a consumePose call whose aligned reference timestamp is <= the
\* lastScoredTimestamp it started with changes none of timestamp_scores,
\* lastScoredTimestamp and current_window_average and returns that average.
C2_StaleGate ==
    (Consumed /\ Aligned.timestamp <= before.lastScoredTimestamp)
        => /\ Fields = before
           /\ ret = Returned(before.current_window_average)

C2_Witness ==
    /\ Consumed
    /\ Aligned.timestamp = before.lastScoredTimestamp
    /\ Len(before.timestamp_scores) >= 1
    /\ Len(arg.poses) > 0
    /\ ret = Returned(current_window_average)

\* C3: a consumePose call whose aligned reference timestamp T is greater than
\* lastScoredTimestamp appends exactly one entry (T, score) to
\* timestamp_scores, keeps the earlier entries and sets lastScoredTimestamp
\* to T; every other call appends nothing.
C3_AcceptingStep ==
    Consumed =>
        IF Aligned.timestamp > before.lastScoredTimestamp
        THEN /\ Len(timestamp_scores) = Len(before.timestamp_scores) + 1
             /\ SubSeq(timestamp_scores, 1, Len(before.timestamp_scores))
                    = before.timestamp_scores
             /\ timestamp_scores[Len(timestamp_scores)][1] = Aligned.timestamp
             /\ lastScoredTimestamp = Aligned.timestamp
        ELSE timestamp_scores = before.timestamp_scores

\* C4: across a consumePose call lastScoredTimestamp never decreases, and it
\* increases exactly when the call recorded a sample.
C4_WatermarkMonotonic ==
    op = "consumePose" =>
        /\ lastScoredTimestamp >= before.lastScoredTimestamp
        /\ (lastScoredTimestamp > before.lastScoredTimestamp
                <=> timestamp_scores # before.timestamp_scores)

C4_Witness ==
    /\ Recorded
    /\ before.lastScoredTimestamp > 0
    /\ lastScoredTimestamp > before.lastScoredTimestamp

\* C5: the reference entry consumePose aligns a live timestamp t to is at
\* the minimum distance |timestamp - t| over all reference entries, and has
\* timestamp t when some entry has.
C5_AlignsToNearest ==
    Consumed =>
        /\ \A i \in 1..Len(levelData.pose_data) :
              Abs(Aligned.timestamp - arg.timestamp)
                  <= Abs(levelData.pose_data[i].timestamp - arg.timestamp)
        /\ (\E i \in 1..Len(levelData.pose_data) :
               levelData.pose_data[i].timestamp = arg.timestamp)
              => Aligned.timestamp = arg.timestamp

\* A frame strictly between two inner reference entries, nearer to the later
\* one; it was aligned to the later one and recorded there.
C5_Witness ==
    /\ Consumed
    /\ Len(levelData.pose_data) >= 4
    /\ \E i \in 2..(Len(levelData.pose_data) - 1) :
          /\ levelData.pose_data[i].timestamp < arg.timestamp
          /\ arg.timestamp < levelData.pose_data[i + 1].timestamp
          /\ arg.timestamp - levelData.pose_data[i].timestamp
                > levelData.pose_data[i + 1].timestamp - arg.timestamp
          /\ Aligned = levelData.pose_data[i + 1]
    /\ Recorded
    /\ lastScoredTimestamp = Aligned.timestamp

\* C6: after a consumePose call that records a sample at T with
\* window_size W >= 0, the stored and returned average is the arithmetic mean
\* of the scores of exactly the samples with timestamp in [T - W, T].
C6_WindowedAverage ==
    (Recorded /\ window_size >= 0)
        => /\ current_window_average
                = MeanOf(timestamp_scores,
                         InRange(timestamp_scores,
                                 lastScoredTimestamp - window_size,
                                 lastScoredTimestamp))
           /\ ret = Returned(current_window_average)

\* Three samples, the window holds the last two (the earlier of them on the
\* window's start) and their scores differ.
C6_Witness ==
    /\ Recorded
    /\ window_size >= 0
    /\ Len(timestamp_scores) = 3
    /\ InRange(timestamp_scores, lastScoredTimestamp - window_size,
               lastScoredTimestamp) = {2, 3}
    /\ timestamp_scores[2][1] = lastScoredTimestamp - window_size
    /\ IsNum(timestamp_scores[2][2])
    /\ IsNum(timestamp_scores[3][2])
    /\ timestamp_scores[2][2] # timestamp_scores[3][2]
    /\ IsNum(current_window_average)
    /\ current_window_average # timestamp_scores[3][2]

\* C7: computeIntervalScores returns one value per interval, in the order of
\* the intervals: the arithmetic mean of the scores of the samples with
\* start <= timestamp <= end, and 0 when there is none.
C7_IntervalScores ==
    op = "computeIntervalScores" =>
        /\ ret.kind = "list"
        /\ Len(ret.list) = Len(intervals)
        /\ \A i \in 1..Len(intervals) :
              ret.list[i] = MeanOf(timestamp_scores,
                                   InRange(timestamp_scores,
                                           intervals[i][1], intervals[i][2]))

\* Some interval holds two samples with different scores, one of them on the
\* interval's end, and some interval holds none.
C7_Witness ==
    /\ op = "computeIntervalScores"
    /\ Len(intervals) >= 2
    /\ \E i \in 1..Len(intervals) :
          InRange(timestamp_scores, intervals[i][1], intervals[i][2]) = {}
    /\ \E i \in 1..Len(intervals) :
          LET I == InRange(timestamp_scores, intervals[i][1], intervals[i][2])
          IN  /\ Cardinality(I) = 2
              /\ \E a, b \in I :
                    /\ timestamp_scores[b][1] = intervals[i][2]
                    /\ IsNum(timestamp_scores[a][2])
                    /\ IsNum(timestamp_scores[b][2])
                    /\ timestamp_scores[a][2] # timestamp_scores[b][2]
              /\ IsNum(ret.list[i])
              /\ ret.list[i] # Num(0)

\* C8: with an empty pose_data every consumePose call returns the initial
\* average 0 and does not throw, and timestamp_scores stays empty and
\* lastScoredTimestamp stays 0.
C8_EmptyReference ==
    Len(levelData.pose_data) = 0 =>
        /\ op = "consumePose" => ret = Returned(Num(0))
        /\ timestamp_scores = <<>>
        /\ lastScoredTimestamp = 0
        /\ current_window_average = Num(0)

C8_Witness ==
    /\ Len(levelData.pose_data) = 0
    /\ op = "consumePose"
    /\ arg.poses = <<>>
    /\ arg.timestamp > 0
    /\ ret = Returned(Num(0))

\* C9: a consumePose call whose frame carries no detected pose does not
\* throw: it records no sample, leaves lastScoredTimestamp unchanged and
\* returns the unchanged current average.
C9_NoPoseSkipped ==
    (op = "consumePose" /\ arg.poses = <<>>)
        => /\ ret = Returned(before.current_window_average)
           /\ Fields = before

\* C10: when the live pose or the aligned reference pose has no keypoint or
\* a zero normalization radius, consumePose records no sample and leaves
\* the window average unchanged.
C10_DegenerateSkipped ==
    (/\ Consumed
     /\ Len(arg.poses) > 0
     /\ Len(Aligned.poses) > 0
     /\ Degenerate(arg.poses[1]) \/ Degenerate(Aligned.poses[1]))
        => /\ timestamp_scores = before.timestamp_scores
           /\ current_window_average = before.current_window_average

\* C11: a scorer with window_size <= 0 fails at construction, so no such
\* scorer ever takes a consumePose call.
C11_NonPositiveWindowRejected ==
    op = "consumePose" => window_size > 0

\* A defined number >= 0.
NonNegative(a) == IsNum(a) /\ a.v >= 0

\* C12: every score stored in timestamp_scores, every window average
\* consumePose returns and every value computeIntervalScores returns is a
\* defined number >= 0.
C12_ScoreRange ==
    /\ \A i \in 1..Len(timestamp_scores) : NonNegative(timestamp_scores[i][2])
    /\ NonNegative(current_window_average)
    /\ ret.kind = "number" => NonNegative(ret.num)
    /\ ret.kind = "list" => \A i \in 1..Len(ret.list) : NonNegative(ret.list[i])

\* C13: comparePoses2D(P, P) returns exactly 0 for every pose P.
C13_SelfComparison ==
    (op = "comparePoses2D" /\ arg.poses[1] = arg.poses[2])
        => ret = Returned(Num(0))

\* The tolerance of a comparison of two fixed-point results: a tenth.
Tolerance == Scale \div 10

\* Two results are numbers and differ by at most the tolerance.
Close(a, b) == IsNum(a) /\ IsNum(b) /\ Abs(a.v - b.v) <= Tolerance

\* C19: comparePoses2D(P', Q), with P' the pose P translated by a vector or
\* scaled by a positive factor, equals comparePoses2D(P, Q) within the
\* tolerance, for all poses P and Q.
C19_MotionInvariance ==
    op = "comparePoses2D" => Close(ret.num, comparePoses2D(poseP, poseQ))

\* The pose has a keypoint with that name.
Has(pose, name) == \E i \in 1..Len(pose.keypoints) : pose.keypoints[i].name = name

\* The catalog triples (by position) all three of whose keypoints the pose has.
Resolved(pose) ==
    { t \in 1..Len(angles_to_consider) :
        \A k \in 1..3 : Has(pose, angles_to_consider[t][k]) }

\* The keys of a returned object and the value stored under a key.
Keys(object) == { object[i][1] : i \in 1..Len(object) }

Get(object, key) ==
    object[CHOOSE i \in 1..Len(object) : object[i][1] = key][2]

\* The last call was comparePosesByAngles2D(poseP, poseQ).
Angled == op = "comparePosesByAngles2D"

\* C14: comparePosesByAngles2D(P, P)["total"] is 100 times the number of
\* catalog triples all three of whose keypoints P has.
C14_SelfAngles ==
    (Angled /\ poseP = poseQ)
        => /\ "total" \in Keys(ret.list)
           /\ Get(ret.list, "total") = Num(100 * Cardinality(Resolved(poseP)))

\* A pose with seven of the eight triples resolvable, compared with itself.
C14_Witness ==
    /\ Angled
    /\ poseP = poseQ
    /\ Cardinality(Resolved(poseP)) = 7
    /\ Get(ret.list, "total") = Num(700)

\* C15: the object comparePosesByAngles2D returns has one entry, under the
\* triple's middle joint name, for exactly the catalog triples resolvable in
\* both poses, and a "total" entry that is the sum of the other entries; the
\* middle joint names of the catalog are pairwise distinct.
C15_AngleEntries ==
    Angled =>
        LET both == Resolved(poseP) \cap Resolved(poseQ)
            angles == SelectSeq(ret.list, LAMBDA e : e[1] # "total")
            scores == listOf([i \in 1..Len(angles) |-> angles[i][2]], Len(angles))
        IN  /\ Keys(ret.list) = { angles_to_consider[t][2] : t \in both } \cup {"total"}
            /\ Len(ret.list) = Cardinality(both) + 1
            /\ Get(ret.list, "total") = sumFrom(scores, 1, Num(0))
            /\ \A t, u \in 1..Len(angles_to_consider) :
                  t # u => angles_to_consider[t][2] # angles_to_consider[u][2]

\* Some triple is resolvable in both poses, some in the first only, some in
\* the second only, and the two poses differ in a scored angle.
C15_Witness ==
    /\ Angled
    /\ Resolved(poseP) \cap Resolved(poseQ) # {}
    /\ Resolved(poseP) \ Resolved(poseQ) # {}
    /\ Resolved(poseQ) \ Resolved(poseP) # {}
    /\ \E i \in 1..Len(ret.list) :
          /\ ret.list[i][1] # "total"
          /\ IsNum(ret.list[i][2])
          /\ ret.list[i][2] # Num(100)
    /\ Get(ret.list, "total") # Num(100 * (Len(ret.list) - 1))

\* The keypoint of a pose that find returns for a name.
Keypoint(pose, name) == pose.keypoints[find(pose.keypoints, name)]

\* The signed angle at the middle keypoint of a triple: between the rays
\* from the middle keypoint to the first and to the third.
AngleAtMiddle(pose, angle) ==
    LET a == Keypoint(pose, angle[1])
        b == Keypoint(pose, angle[2])
        c == Keypoint(pose, angle[3])
    IN  Sub(atan2(a.y - b.y, a.x - b.x), atan2(c.y - b.y, c.x - b.x))

\* C16: the angle comparePosesByAngles2D computes for a triple (a, b, c) of
\* a pose is the signed angle at the middle keypoint b, so the score stored
\* for the triple is 100 - |difference of the two poses' angles at b| / PI.
C16_AngleAtMiddleJoint ==
    Angled =>
        \A t \in Resolved(poseP) \cap Resolved(poseQ) :
            Get(ret.list, angles_to_consider[t][2])
                = angleScore(AngleAtMiddle(poseP, angles_to_consider[t]),
                             AngleAtMiddle(poseQ, angles_to_consider[t]))

\* C17: a computeIntervalScores call changes none of timestamp_scores,
\* lastScoredTimestamp, current_window_average and intervals, nor anything
\* else a later consumePose call reads (levelData, window_size).
C17_IntervalScoresReadOnly ==
    [][op' = "computeIntervalScores"
          => UNCHANGED <<timestamp_scores, lastScoredTimestamp,
                         current_window_average, intervals, levelData,
                         window_size>>]_vars

\* computeIntervalScores was called between consumePose calls: two samples
\* are recorded, an interval holds some of them, and a later reference entry
\* is still to be scored.
C17_Witness ==
    /\ op = "computeIntervalScores"
    /\ Len(timestamp_scores) >= 2
    /\ \E i \in 1..Len(ret.list) : ret.list[i] # Num(0)
    /\ \E i \in 1..Len(levelData.pose_data) :
          levelData.pose_data[i].timestamp > lastScoredTimestamp

\* C18: a consumePose call on one of two scorers leaves the other's
\* timestamp_scores, lastScoredTimestamp and current_window_average
\* unchanged, also when both were built with the default intervals or with
\* the same level data object, and it leaves the reference sequence unchanged.
C18_SessionIsolation ==
    [][(op' = "consumePose" /\ this' \in {1, 2})
          => LET other == 3 - this'
             IN  /\ scorers'[other] = scorers[other]
                 /\ heap'[scorers[other].timestamp_scores]
                        = heap[scorers[other].timestamp_scores]
                 /\ heap'[scorers[this'].levelData]
                        = heap[scorers[this'].levelData]]_vars

\* Two scorers built with the default intervals and the same level data
\* object; the first has recorded two samples, the second one, and the last
\* call recorded a sample on the first.
C18_Witness ==
    /\ op = "consumePose"
    /\ this = 1
    /\ scorers[1].levelData = scorers[2].levelData
    /\ scorers[1].intervals # 2
    /\ scorers[2].intervals # 2
    /\ scorers[1].intervals # scorers[2].intervals
    /\ Len(heap[scorers[1].timestamp_scores]) = 2
    /\ Len(before.timestamp_scores) = 1
    /\ Len(heap[scorers[2].timestamp_scores]) = 1
    /\ scorers[2].lastScoredTimestamp < scorers[1].lastScoredTimestamp

\* C20: POST /levels/create answers level data that does not conform to the
\* level schema with 400 "Invalid JSON data uploaded for level", runs no
\* frame extraction for it and stores no Level document.
C20_InvalidDataRejected ==
    (/\ requests = 1
     /\ request.file
     /\ request.data.parses
     /\ ~LevelSchema(request.data.value))
        => /\ responses = << Response(400, "Invalid JSON data uploaded for level") >>
           /\ ffmpeg = "none"
           /\ newLevel = NoLevel
           /\ levels = <<>>

\* C21: every POST /levels/create request eventually receives exactly one
\* response, whichever path its handler takes.
C21_EventuallyOneResponse ==
    \A n \in 1..MaxRequests :
        (requests = n) ~> (requests = n /\ pc = "idle" /\ Len(responses) = 1)

\* C22: the pose_data that level creation hands to the save has one entry
\* per extracted frame, the i-th (from 0) stamped i * 1000 / fps; it and every
\* stored pose_data start at timestamp 0 and ascend strictly.
StartsAtZero(pose_data) ==
    pose_data # <<>> => pose_data[1].timestamp = Num(0)

StrictlyAscending(pose_data) ==
    \A i \in 1..Len(pose_data) - 1 :
        /\ IsNum(pose_data[i].timestamp)
        /\ IsNum(pose_data[i + 1].timestamp)
        /\ pose_data[i].timestamp.v < pose_data[i + 1].timestamp.v

C22_PoseDataAscendingFromZero ==
    /\ pc = "saving" =>
          /\ Len(newLevel.pose_data) = frameFiles
          /\ \A i \in 1..frameFiles :
                newLevel.pose_data[i].timestamp = Div(Num((i - 1) * 1000), fps)
          /\ StartsAtZero(newLevel.pose_data)
          /\ StrictlyAscending(newLevel.pose_data)
    /\ \A l \in 1..Len(levels) :
          /\ StartsAtZero(levels[l].pose_data)
          /\ StrictlyAscending(levels[l].pose_data)

C22_Witness ==
    /\ levels # <<>>
    /\ Len(levels[1].pose_data) = frameFiles
    /\ frameFiles >= 2
    /\ fps.v > 0

\* C26: every sample of timestamp_scores carries the timestamp of some entry
\* of the reference sequence, and one above 0; a reference entry stamped 0
\* is never scored.
C26_SamplesAreReferenceTimesAboveZero ==
    \A i \in 1..Len(timestamp_scores) :
        /\ timestamp_scores[i][1] > 0
        /\ \E j \in 1..Len(levelData.pose_data) :
              levelData.pose_data[j].timestamp = timestamp_scores[i][1]

\* A frame with poses was aligned to the reference entry stamped 0 while
\* another entry had been scored.
C26_Witness ==
    /\ Consumed
    /\ levelData.pose_data[1].timestamp = 0
    /\ Aligned.timestamp = 0
    /\ Len(arg.poses) > 0
    /\ Len(Aligned.poses) > 0
    /\ ret = Returned(current_window_average)
    /\ Len(timestamp_scores) >= 1

\* C27: lastScoredTimestamp is the timestamp of the last sample of
\* timestamp_scores, and 0 while there is none, also after a call that threw.
C27_WatermarkIsLastSample ==
    lastScoredTimestamp
        = IF timestamp_scores = <<>> THEN 0
          ELSE timestamp_scores[Len(timestamp_scores)][1]

\* A call threw after samples had been recorded.
C27_Witness ==
    /\ op = "consumePose"
    /\ ret = Threw
    /\ Len(timestamp_scores) >= 2
    /\ lastScoredTimestamp = timestamp_scores[Len(timestamp_scores)][1]

\* C28: after a consumePose call that records a sample, with window_size >= 0,
\* the slice averaged is a non-empty suffix of timestamp_scores: endIndex is
\* the index of the sample just recorded and startIndex <= endIndex.
C28_WindowSliceEndsWithNewSample ==
    (Recorded /\ window_size >= 0)
        => LET window_start == lastScoredTimestamp - window_size
               startIndex == startIndexOf(timestamp_scores, window_start)
               endIndex == endIndexOf(timestamp_scores, window_start,
                                      lastScoredTimestamp)
               slice == windowScores(timestamp_scores, window_start,
                                     lastScoredTimestamp)
           IN  /\ endIndex = Len(timestamp_scores)
               /\ 1 <= startIndex
               /\ startIndex <= endIndex
               /\ slice # <<>>
               /\ slice = SubSeq(timestamp_scores, startIndex, Len(timestamp_scores))
               /\ slice[Len(slice)][1] = Aligned.timestamp

\* The window of the third sample recorded leaves the first one out.
C28_Witness ==
    /\ Recorded
    /\ window_size >= 0
    /\ Len(timestamp_scores) = 3
    /\ startIndexOf(timestamp_scores, lastScoredTimestamp - window_size) = 2
    /\ endIndexOf(timestamp_scores, lastScoredTimestamp - window_size,
                  lastScoredTimestamp) = 3

\* The last consumePose call had a frame exactly halfway between the
\* adjacent reference entries i and i + 1.
Halfway(i) ==
    /\ Consumed
    /\ i \in 1..(Len(levelData.pose_data) - 1)
    /\ levelData.pose_data[i].timestamp < arg.timestamp
    /\ arg.timestamp < levelData.pose_data[i + 1].timestamp
    /\ arg.timestamp - levelData.pose_data[i].timestamp
          = levelData.pose_data[i + 1].timestamp - arg.timestamp

\* C29 as stated: a frame halfway between two adjacent reference entries is
\* aligned to the earlier one, wherever the pair stands in the sequence.
C29_TieAlignsToEarlier ==
    \A i \in 1..MaxAlignLen :
        Halfway(i) => Aligned = levelData.pose_data[i]

\* C29: a frame halfway between two adjacent reference entries is aligned
\* to one of the two, and to the earlier one in a sequence of at most four
\* entries.
C29_TieAlignsToEitherNeighbour ==
    \A i \in 1..MaxAlignLen :
        Halfway(i) =>
            /\ Aligned \in { levelData.pose_data[i], levelData.pose_data[i + 1] }
            /\ Len(levelData.pose_data) <= 4 => Aligned = levelData.pose_data[i]

\* A halfway frame in a sequence of five entries that was aligned to the
\* later neighbour and recorded there.
C29_Witness ==
    /\ Len(levelData.pose_data) = 5
    /\ Halfway(2)
    /\ Aligned = levelData.pose_data[3]
    /\ Recorded
    /\ lastScoredTimestamp = levelData.pose_data[3].timestamp

\* C23: every interval in the creation page's list has start < end.
C23_IntervalsStartBeforeEnd ==
    \A i \in 1..Len(creationIntervals) :
        creationIntervals[i][1].v < creationIntervals[i][2].v

\* C24: a mounted SkeletonViewer creates at most one processing pipeline.
C24_AtMostOnePipeline == pipelines <= 1

\* The positions in events of the calls of one type made for a frame.
Calls(type, frame) ==
    { e \in 1..Len(events) : events[e].type = type /\ events[e].frame = frame }

\* The frames whose transform has ended, by returning or by throwing.
Transformed ==
    1..(IF transforming = "estimating" THEN Len(inputs) - 1 ELSE Len(inputs))

\* C25: for every frame transformed exactly one frame is enqueued, with the
\* input frame's timestamp: the frame itself, not closed, when the detector
\* or the 2D context was missing, otherwise a new frame, after the original
\* was closed; setPoses is called at most once per frame, and never for a
\* frame that arrived before the detector had loaded.
C25_OneOutputPerFrame ==
    /\ \A frame \in Transformed :
          /\ Cardinality(Calls("enqueue", frame)) = 1
          /\ \A e \in Calls("enqueue", frame) :
                /\ events[e].timestamp = Num(inputs[frame].timestamp)
                /\ events[e].annotated = (inputs[frame].detector /\ inputs[frame].ctx)
                /\ events[e].annotated =>
                      \E c \in Calls("close", frame) : c < e
                /\ ~events[e].annotated => Calls("close", frame) = {}
    /\ \A frame \in 1..Len(inputs) :
          /\ Cardinality(Calls("setPoses", frame)) <= 1
          /\ ~inputs[frame].detector => Calls("setPoses", frame) = {}

====
